---------------------------- MODULE Spec2Model ----------------------------
(***************************************************************************)
(* Model of src/streamlit_app.py: the enfugue install/update/launch        *)
(* script and its three helper functions compare_versions,                 *)
(* compare_prompt_update and download_portable.                            *)
(*                                                                         *)
(* One behaviour is either a run of the script (lines 178-284) or a direct *)
(* call of one of the helper functions with arguments drawn from bounded   *)
(* sets.                                                                   *)
(*                                                                         *)
(* Reading of the source.  The model follows the statements of the script  *)
(* as they are written and lets every lookup of a name succeed: the        *)
(* modules `sys` and `shutil` used at lines 124 and 214-242 resolve, the   *)
(* argparse namespace carries the four flags read at lines 194-207         *)
(* (conda, portable, update, no_update), and the separator at line 258 is  *)
(* the literal text  "tag_name": "  .  Errors that depend on run-time data *)
(* (None passed where a string is needed, an index outside a list, an      *)
(* executable that is not on PATH) are modelled as the uncaught exception  *)
(* they raise, which ends the run with exit status 1.  install_mmpose      *)
(* (lines 191, 199-202) is assigned and never read, and is left out.       *)
(*                                                                         *)
(* Python values: None, True and False are the strings "None", "True",     *)
(* "False"; a text whose characters matter (a version, the curl output,    *)
(* the answer typed at the prompt) is a sequence of one-character strings, *)
(* and NoneText stands for None where such a text is expected.             *)
(***************************************************************************)
EXTENDS Integers, Sequences, FiniteSets, TLC

VARIABLES
    pc,                                   \* position of the run / call
    caller,                               \* "none", "script" or "unit"
    args,                                 \* argparse namespace (line 187)
    install_type,                         \* line 190
    install_update,                       \* line 192
    conda,                                \* line 214
    enfugue,                              \* lines 221-233
    enfugue_server,                       \* lines 227-231
    python,                               \* line 242
    enfugue_installed_pip_version,        \* line 236
    enfugue_available_pip_version,        \* line 237
    enfugue_installed_portable_version,   \* line 238
    enfugue_available_portable_version,   \* line 239
    disk,                                 \* files of the working directory
    disk_before,                          \* disk when download_portable was entered
    tar_next,                             \* next archive member extractall writes
    queries,                              \* version queries issued so far
    prompts,                              \* number of prompts shown
    downloads,                            \* number of calls of download_portable
    launched,                             \* argv of every child started at 280/282
    child_status,                         \* return code of the launched child
    stdout,                               \* messages printed (those of interest)
    error,                                \* uncaught exception, "" when none
    exit_code,                            \* exit status of the script, -1 while running
    call,                                 \* the function called directly and its arguments
    ret                                   \* what a function returned or raised

vars == << pc, caller, args, install_type, install_update, conda, enfugue,
           enfugue_server, python, enfugue_installed_pip_version,
           enfugue_available_pip_version, enfugue_installed_portable_version,
           enfugue_available_portable_version, disk, disk_before, tar_next,
           queries, prompts, downloads, launched, child_status, stdout, error,
           exit_code, call, ret >>

\* ------------------------------------------------------------------ bounds

\* Longest version text handed to compare_versions directly.
MaxLen == 3

\* Longest version text handed to compare_prompt_update directly.
MaxPromptLen == 2

\* Number of members of the release archive.
MaxMembers == 2

\* ------------------------------------------------------------ Python values

None == "None"

NoneText == << "None" >>

Digits == { "0", "1", "9" }

Chars == Digits \cup { "." }

DigitVal(c) ==
    CASE c = "0" -> 0 [] c = "1" -> 1 [] c = "2" -> 2 [] c = "3" -> 3
      [] c = "4" -> 4 [] c = "5" -> 5 [] c = "6" -> 6 [] c = "7" -> 7
      [] c = "8" -> 8 [] c = "9" -> 9

IsDigit(c) == c \in { "0", "1", "2", "3", "4", "5", "6", "7", "8", "9" }

Return(v) == [ exc |-> "", val |-> v ]

Raise(e) == [ exc |-> e, val |-> None ]

\* str.split(sep) for a separator of one token: the pieces between the
\* occurrences of sep, empty pieces kept.
RECURSIVE SplitFrom(_, _, _, _)
SplitFrom(s, sep, i, piece) ==
    IF i > Len(s) THEN << piece >>
    ELSE IF s[i] = sep THEN << piece >> \o SplitFrom(s, sep, i + 1, << >>)
    ELSE SplitFrom(s, sep, i + 1, Append(piece, s[i]))

Split(s, sep) == SplitFrom(s, sep, 1, << >>)

\* int(text) on a text of decimal digits; anything else raises ValueError.
IsIntText(t) == Len(t) > 0 /\ \A i \in 1..Len(t) : IsDigit(t[i])

RECURSIVE IntOf(_, _, _)
IntOf(t, i, acc) ==
    IF i > Len(t) THEN acc ELSE IntOf(t, i + 1, acc * 10 + DigitVal(t[i]))

PyInt(t) == IntOf(t, 1, 0)

Max(a, b) == IF a > b THEN a ELSE b

\* list(map(int, v.split("."))) of lines 130-131: defined when every piece
\* between the dots is a text of digits, and raises ValueError otherwise.
IsVersionText(v) ==
    LET p == Split(v, ".") IN \A i \in 1..Len(p) : IsIntText(p[i])

IntList(v) ==
    LET p == Split(v, ".") IN [ i \in 1..Len(p) |-> PyInt(p[i]) ]

\* --------------------------------------------------- compare_versions (126)

\* The loop of lines 132-138 from index i (0-based, as in the source).
RECURSIVE CompareLoop(_, _, _)
CompareLoop(ver1, ver2, i) ==
    IF i >= Max(Len(ver1), Len(ver2)) THEN 0
    ELSE LET a == IF i < Len(ver1) THEN ver1[i + 1] ELSE 0
             b == IF i < Len(ver2) THEN ver2[i + 1] ELSE 0
         IN  IF a > b THEN 1
             ELSE IF a < b THEN -1
             ELSE CompareLoop(ver1, ver2, i + 1)

\* Mutant: the loop stops at the shorter list (no zero padding).
RECURSIVE CompareLoopNoPad(_, _, _)
CompareLoopNoPad(ver1, ver2, i) ==
    IF i >= Len(ver1) \/ i >= Len(ver2) THEN 0
    ELSE IF ver1[i + 1] > ver2[i + 1] THEN 1
    ELSE IF ver1[i + 1] < ver2[i + 1] THEN -1
    ELSE CompareLoopNoPad(ver1, ver2, i + 1)

compare_versions_nopad(v1, v2) ==
    IF v1 = v2 THEN Return(0)
    ELSE IF v1 = NoneText THEN Raise("AttributeError")
    ELSE IF ~IsVersionText(v1) THEN Raise("ValueError")
    ELSE IF v2 = NoneText THEN Raise("AttributeError")
    ELSE IF ~IsVersionText(v2) THEN Raise("ValueError")
    ELSE Return(CompareLoopNoPad(IntList(v1), IntList(v2), 0))

compare_versions(v1, v2) ==
    IF v1 = v2 THEN Return(0)
    ELSE IF v1 = NoneText THEN Raise("AttributeError")
    ELSE IF ~IsVersionText(v1) THEN Raise("ValueError")
    ELSE IF v2 = NoneText THEN Raise("AttributeError")
    ELSE IF ~IsVersionText(v2) THEN Raise("ValueError")
    ELSE Return(CompareLoop(IntList(v1), IntList(v2), 0))

\* ---------------------------------------------- compare_prompt_update (141)

\* str.lower() on the characters an answer is made of.
LowerChar(c) ==
    CASE c = "Y" -> "y" [] c = "T" -> "t" [] c = "N" -> "n" [] OTHER -> c

Lower(t) == [ i \in 1..Len(t) |-> LowerChar(t[i]) ]

PyBool(b) == IF b THEN "True" ELSE "False"

\* Python truth value of an argument that is True, False or None.
Truthy(x) == x = "True"

\* Mutant: the update is offered when the versions are equal as well.
compare_prompt_update_le(v1, v2, upd, answer) ==
    LET compare == compare_versions(v1, v2)
    IN  IF compare.exc # "" THEN [ exc |-> compare.exc, val |-> None, prompted |-> FALSE ]
        ELSE IF compare.val <= 0
             THEN IF Truthy(upd)
                  THEN [ exc |-> "", val |-> "True", prompted |-> FALSE ]
                  ELSE IF Len(Lower(answer)) = 0
                       THEN [ exc |-> "IndexError", val |-> None, prompted |-> TRUE ]
                       ELSE [ exc |-> "",
                              val |-> PyBool(Lower(answer)[1] \in { "y", "t", "1" }),
                              prompted |-> TRUE ]
             ELSE [ exc |-> "", val |-> None, prompted |-> FALSE ]

\* The value returned (or the exception raised) by lines 143-150 and whether
\* the prompt of line 148 was printed; answer is the line input() reads.
compare_prompt_update(v1, v2, upd, answer) ==
    LET compare == compare_versions(v1, v2)
    IN  IF compare.exc # "" THEN [ exc |-> compare.exc, val |-> None, prompted |-> FALSE ]
        ELSE IF compare.val < 0
             THEN IF Truthy(upd)
                  THEN [ exc |-> "", val |-> "True", prompted |-> FALSE ]
                  ELSE IF Len(Lower(answer)) = 0
                       THEN [ exc |-> "IndexError", val |-> None, prompted |-> TRUE ]
                       ELSE [ exc |-> "",
                              val |-> PyBool(Lower(answer)[1] \in { "y", "t", "1" }),
                              prompted |-> TRUE ]
             ELSE [ exc |-> "", val |-> None, prompted |-> FALSE ]

\* ------------------------------------------------- tag_name parsing (258)

\* The literal  "tag_name": "  as one token of the curl output, and the
\* double quote.
TagKey == "\"tag_name\": \""

Quote == "\""

\* str.replace(old, "") for a one-token old.
Remove(s, old) == SelectSeq(s, LAMBDA c : c # old)

\* Line 258: split(TagKey)[1].split(",")[0].replace(Quote, "").
ParseTagName(out) ==
    LET pieces == Split(out, TagKey)
    IN  IF Len(pieces) < 2 THEN Raise("IndexError")
        ELSE Return(Remove(Split(pieces[2], ",")[1], Quote))

\* ------------------------------------------------------------ input sets

RECURSIVE TextsUpTo(_)
TextsUpTo(n) ==
    IF n = 0 THEN { << >> }
    ELSE LET shorter == TextsUpTo(n - 1)
         IN  shorter \cup { Append(t, c) : t \in { u \in shorter : Len(u) = n - 1 },
                                           c \in Chars }

\* The valid dotted-integer version texts of at most n characters.
VersionTexts(n) == { t \in TextsUpTo(n) : IsVersionText(t) }

\* Arguments of a direct call of compare_versions: the valid versions, None,
\* and two texts int() rejects.
CompareInputs == VersionTexts(MaxLen) \cup { NoneText, << >>, << "1", "." >> }

PromptInputs == VersionTexts(MaxPromptLen) \cup { NoneText }

\* Lines a user may type at the prompt of line 148.
Answers == { << >>, << "y" >>, << "Y", "e", "s" >>, << "T" >>, << "1" >>,
             << "n" >>, << "N", "o" >>, << "0" >>, << "n", "y" >> }

\* What curl -s may print for the release query of line 257: nothing (the
\* request failed), a reply without tag_name, and replies that carry one.
CurlOutputs ==
    { << >>,
      << "{", Quote, "message", Quote, "}" >>,
      << "{", TagKey, "1", ".", "0", Quote, ",", Quote, "assets", Quote, "}" >>,
      << "{", Quote, "id", Quote, ",", TagKey, "0", ".", "1", "0", Quote, ",", "}" >> }

\* Python list-or-None of version texts: NoneList stands for None.
NoneList == << NoneText >>

PipLists == { << >>, << << "1", ".", "0" >> >> }

ChildStatuses == { 0, 1 }

Members == 1..MaxMembers

FileNames == { "config.yml", "enfugue.yml", "archive" }

\* ----------------------------------------------- option handling (189-207)

InstallType(a) ==
    IF a.conda THEN "conda" ELSE IF a.portable THEN "portable" ELSE ""

InstallUpdate(a) ==
    IF a.update THEN "True" ELSE IF a.no_update THEN "False" ELSE None

\* ------------------------------------------------ guards of lines 245-255

FoundAny(enf, srv) == enf # None \/ srv # None

ChecksPipInstalled(py, upd) == py # None /\ upd = None

ChecksPipAvailable(enf, installed, upd) ==
    enf # None /\ installed # NoneList /\ Len(installed) > 0 /\ upd = None

\* Mutant: the portable release is queried whatever --update/--no-update say.
ChecksPortableAlways(srv, upd) == srv # None

ChecksPortable(srv, upd) == srv # None /\ upd = None

\* ---------------------------------------------------------------- Init

Init ==
    /\ pc = "entry"
    /\ caller = "none"
    /\ args = [ conda |-> FALSE, portable |-> FALSE, update |-> FALSE, no_update |-> FALSE ]
    /\ install_type = ""
    /\ install_update = None
    /\ conda = None
    /\ enfugue = None
    /\ enfugue_server = None
    /\ python = None
    /\ enfugue_installed_pip_version = NoneList
    /\ enfugue_available_pip_version = NoneList
    /\ enfugue_installed_portable_version = NoneText
    /\ enfugue_available_portable_version = NoneText
    /\ disk = [ files |-> [ f \in FileNames |-> "absent" ],
                 members |-> [ m \in Members |-> "old" ] ]
    /\ disk_before = disk
    /\ tar_next = 0
    /\ queries = { }
    /\ prompts = 0
    /\ downloads = 0
    /\ launched = << >>
    /\ child_status = -1
    /\ stdout = { }
    /\ error = ""
    /\ exit_code = -1
    /\ call = [ fn |-> "", v1 |-> NoneText, v2 |-> NoneText, upd |-> None, answer |-> << >> ]
    /\ ret = Raise("")

envVars == << args, install_type, install_update, conda, enfugue, enfugue_server,
              python, enfugue_installed_pip_version, enfugue_available_pip_version,
              enfugue_available_portable_version >>

dlVars == << disk_before, tar_next, downloads >>

\* An uncaught exception ends the script: traceback, exit status 1.
Crash(e) ==
    /\ pc' = "exit"
    /\ error' = e
    /\ exit_code' = 1

Goto(p) ==
    /\ pc' = p
    /\ UNCHANGED << error, exit_code >>

\* ------------------------------------------------------- the script's steps

\* Lines 57-58 and 178-207: config.yml is written, the options are parsed.
ParseArgs ==
    /\ pc = "entry"
    /\ \E a \in [ conda : BOOLEAN, portable : BOOLEAN,
                  update : BOOLEAN, no_update : BOOLEAN ] :
          /\ args' = a
          /\ install_type' = InstallType(a)
          /\ install_update' = InstallUpdate(a)
    /\ caller' = "script"
    /\ disk' = [ disk EXCEPT !.files["config.yml"] = "config" ]
    /\ Goto("probe")
    /\ UNCHANGED << conda, enfugue, enfugue_server, python,
                    enfugue_installed_pip_version, enfugue_available_pip_version,
                    enfugue_installed_portable_version,
                    enfugue_available_portable_version, dlVars, queries, prompts,
                    launched, child_status, stdout, call, ret >>

\* Lines 209-242: which of the two entry points are found.  subprocess.run
\* of line 220 raises FileNotFoundError unless an executable named "source"
\* is on PATH.
Probe ==
    /\ pc = "probe"
    /\ \E which_conda \in { None, "/opt/conda/bin/conda" },
          env_list_rc \in { 0, 1 },
          source_on_path \in BOOLEAN,
          which_enfugue \in { None, "/opt/conda/envs/enfugue/bin/enfugue" },
          which_server \in { None, "./enfugue-server/enfugue-server" },
          which_python \in { None, "/usr/bin/python3" } :
          /\ conda' = which_conda
          /\ IF which_conda # None /\ ~args.portable /\ env_list_rc = 0 /\ ~source_on_path
             THEN /\ Crash("FileNotFoundError")
                  /\ stdout' = stdout \cup { "Found enfugue environment, activating." }
                  /\ UNCHANGED << enfugue, enfugue_server, python >>
             ELSE LET activated == which_conda # None /\ ~args.portable /\ env_list_rc = 0
                      enf == IF activated THEN which_enfugue ELSE None
                      enf2 == IF install_type = "portable" THEN None ELSE enf
                      srv2 == IF install_type = "conda" THEN None ELSE which_server
                  IN  /\ enfugue' = enf2
                      /\ enfugue_server' = srv2
                      /\ python' = which_python
                      /\ stdout' = IF activated
                                   THEN stdout \cup { "Found enfugue environment, activating." }
                                   ELSE stdout
                      /\ Goto(IF FoundAny(enf2, srv2) THEN "pip_installed" ELSE "display")
    /\ UNCHANGED << caller, args, install_type, install_update,
                    enfugue_installed_pip_version, enfugue_available_pip_version,
                    enfugue_installed_portable_version,
                    enfugue_available_portable_version, disk, dlVars, queries,
                    prompts, launched, child_status, call, ret >>

\* Lines 246-249: the installed pip version, from "pip freeze".
PipInstalled ==
    /\ pc = "pip_installed"
    /\ IF ChecksPipInstalled(python, install_update)
       THEN /\ \E found \in PipLists : enfugue_installed_pip_version' = found
            /\ queries' = queries \cup { "pip_installed" }
       ELSE UNCHANGED << enfugue_installed_pip_version, queries >>
    /\ Goto("pip_available")
    /\ UNCHANGED << caller, args, install_type, install_update, conda, enfugue,
                    enfugue_server, python, enfugue_available_pip_version,
                    enfugue_installed_portable_version,
                    enfugue_available_portable_version, disk, dlVars, prompts,
                    launched, child_status, stdout, call, ret >>

\* Lines 250-254: the versions pip could install.
PipAvailable ==
    /\ pc = "pip_available"
    /\ IF ChecksPipAvailable(enfugue, enfugue_installed_pip_version, install_update)
       THEN /\ \E found \in PipLists : enfugue_available_pip_version' = found
            /\ queries' = queries \cup { "pip_available" }
       ELSE UNCHANGED << enfugue_available_pip_version, queries >>
    /\ Goto("portable_check")
    /\ UNCHANGED << caller, args, install_type, install_update, conda, enfugue,
                    enfugue_server, python, enfugue_installed_pip_version,
                    enfugue_installed_portable_version,
                    enfugue_available_portable_version, disk, dlVars, prompts,
                    launched, child_status, stdout, call, ret >>

\* Lines 255-263: the portable release is queried with curl, its tag parsed
\* and compared with the installed portable version; download_portable is
\* entered when compare_prompt_update returns a true value.
PortableCheck ==
    /\ pc = "portable_check"
    /\ IF ~ChecksPortable(enfugue_server, install_update)
       THEN /\ Goto("display")
            /\ UNCHANGED << enfugue_available_portable_version, queries, prompts,
                            stdout, dlVars >>
       ELSE \E out \in CurlOutputs, answer \in Answers :
              LET tag == ParseTagName(out)
                  upd == compare_prompt_update(enfugue_installed_portable_version,
                                               tag.val, "False", answer)
              IN  IF tag.exc # ""
                  THEN /\ Crash(tag.exc)
                       /\ queries' = queries \cup { "portable_release" }
                       /\ UNCHANGED << enfugue_available_portable_version, prompts,
                                       stdout, dlVars >>
                  ELSE /\ queries' = queries \cup { "portable_release" }
                       /\ enfugue_available_portable_version' = tag.val
                       /\ prompts' = IF upd.prompted THEN prompts + 1 ELSE prompts
                       /\ IF upd.exc # ""
                          THEN /\ Crash(upd.exc)
                               /\ UNCHANGED << stdout, dlVars >>
                          ELSE IF Truthy(upd.val)
                          THEN /\ Goto("dl_get_release")
                               /\ stdout' = stdout \cup { "Downloading the latest version..." }
                               /\ downloads' = downloads + 1
                               /\ disk_before' = disk
                               /\ UNCHANGED tar_next
                          ELSE /\ Goto("display")
                               /\ UNCHANGED << stdout, dlVars >>
    /\ UNCHANGED << caller, args, install_type, install_update, conda, enfugue,
                    enfugue_server, python, enfugue_installed_pip_version,
                    enfugue_available_pip_version,
                    enfugue_installed_portable_version, disk, launched,
                    child_status, call, ret >>

\* Lines 267-276: the versions found are printed; enfugue.yml is written for
\* the conda install.
Display ==
    /\ pc = "display"
    /\ stdout' = stdout
          \cup (IF enfugue_installed_pip_version # NoneList
                   /\ Len(enfugue_installed_pip_version) > 0
                THEN { "Enfugue version (pip)" } ELSE { })
          \cup (IF enfugue_installed_portable_version # NoneText
                   /\ Len(enfugue_installed_portable_version) > 0
                THEN { "Enfugue version (portable)" } ELSE { })
    /\ disk' = IF enfugue # None
               THEN [ disk EXCEPT !.files["enfugue.yml"] = "config" ]
               ELSE disk
    /\ Goto("launch")
    /\ UNCHANGED << caller, envVars, enfugue_installed_portable_version, dlVars,
                    queries, prompts, launched, child_status, call, ret >>

\* Lines 278-284: one child is started and waited for, or "Enfugue not
\* found." is printed; the script then ends, with exit status 0.
Launch ==
    /\ pc = "launch"
    /\ IF enfugue # None
       THEN /\ launched' = Append(launched, << enfugue, "run" >>)
            /\ \E rc \in ChildStatuses : child_status' = rc
            /\ UNCHANGED stdout
       ELSE IF enfugue_server # None
       THEN /\ launched' = Append(launched, << enfugue_server >>)
            /\ \E rc \in ChildStatuses : child_status' = rc
            /\ UNCHANGED stdout
       ELSE /\ stdout' = stdout \cup { "Enfugue not found." }
            /\ UNCHANGED << launched, child_status >>
    /\ pc' = "exit"
    /\ exit_code' = 0
    /\ UNCHANGED << caller, envVars, enfugue_installed_portable_version, disk,
                    dlVars, queries, prompts, error, call, ret >>

\* ------------------------------------------------ download_portable (152)

\* download_portable keeps running at position p.
DlContinue(p) ==
    /\ pc' = p
    /\ UNCHANGED << error, exit_code, ret, stdout, enfugue_installed_portable_version >>

\* download_portable returns or raises r.  Called by the script (line 263),
\* a return is followed by lines 264-265 and an exception is uncaught;
\* called directly, r is handed to the caller.
DlReturn(r) ==
    IF caller = "script"
    THEN IF r.exc = ""
         THEN /\ Goto("display")
              /\ enfugue_installed_portable_version' = enfugue_available_portable_version
              /\ stdout' = stdout \cup { "Successfully downloaded" }
              /\ UNCHANGED ret
         ELSE /\ Crash(r.exc)
              /\ UNCHANGED << ret, stdout, enfugue_installed_portable_version >>
    ELSE /\ pc' = "returned"
         /\ ret' = r
         /\ UNCHANGED << error, exit_code, stdout, enfugue_installed_portable_version >>

dlFrame == << caller, envVars, queries, prompts, launched, child_status, call,
              disk_before, downloads >>

\* Lines 158-163: the latest release is requested and its assets searched
\* for the manylinux archive; without one the function returns silently.
DlGetRelease ==
    /\ pc = "dl_get_release"
    /\ \E release \in { "unreachable", "not_json", "no_assets", "no_manylinux", "ok" } :
          CASE release = "unreachable" -> DlReturn(Raise("ConnectionError"))
            [] release = "not_json" -> DlReturn(Raise("JSONDecodeError"))
            [] release = "no_assets" -> DlReturn(Raise("KeyError"))
            [] release = "no_manylinux" -> DlReturn(Return(None))
            [] release = "ok" -> DlContinue("dl_fetch_archive")
    /\ UNCHANGED << dlFrame, disk, tar_next >>

\* Lines 164-168: the archive is streamed into a file of the working
\* directory; what arrives may be cut short or not be a tar archive.
DlFetchArchive ==
    /\ pc = "dl_fetch_archive"
    /\ \E got \in { "refused", "truncated", "not_tar", "tar" } :
          CASE got = "refused" ->
                 /\ DlReturn(Raise("ConnectionError"))
                 /\ UNCHANGED disk
            [] got = "truncated" ->
                 /\ DlReturn(Raise("ProtocolError"))
                 /\ disk' = [ disk EXCEPT !.files["archive"] = "partial" ]
            [] got \in { "not_tar", "tar" } ->
                 /\ DlContinue("dl_open_archive")
                 /\ disk' = [ disk EXCEPT !.files["archive"] = got ]
    /\ UNCHANGED << dlFrame, tar_next >>

\* Line 169: tarfile.open raises ReadError on a file that is no archive.
DlOpenArchive ==
    /\ pc = "dl_open_archive"
    /\ IF disk.files["archive"] = "tar"
       THEN /\ DlContinue("dl_extract")
            /\ tar_next' = 1
       ELSE /\ DlReturn(Raise("ReadError"))
            /\ UNCHANGED tar_next
    /\ UNCHANGED << dlFrame, disk >>

\* Line 170: extractall writes the members one after the other into the
\* working directory, over whatever is there; a member that cannot be
\* written (before or during the write) ends the call with OSError.
DlExtractMember ==
    /\ pc = "dl_extract"
    /\ tar_next \in Members
    /\ \E wrote \in { "new", "partial", "nothing" } :
          IF wrote = "new"
          THEN /\ disk' = [ disk EXCEPT !.members[tar_next] = "new" ]
               /\ tar_next' = tar_next + 1
               /\ DlContinue("dl_extract")
          ELSE /\ disk' = IF wrote = "partial"
                          THEN [ disk EXCEPT !.members[tar_next] = "partial" ]
                          ELSE disk
               /\ UNCHANGED tar_next
               /\ DlReturn(Raise("OSError"))
    /\ UNCHANGED dlFrame

\* Lines 171-173: the archive is closed and removed, the loop left.
DlFinish ==
    /\ pc = "dl_extract"
    /\ tar_next \notin Members
    /\ disk' = [ disk EXCEPT !.files["archive"] = "absent" ]
    /\ DlReturn(Return(None))
    /\ UNCHANGED << dlFrame, tar_next >>

\* --------------------------------------------- direct calls of the functions

unitFrame == << caller, envVars, enfugue_installed_portable_version, disk, dlVars,
                queries, launched, child_status, error, exit_code >>

\* What the working directory may hold of an earlier install when
\* download_portable is called: each member of the archive is there or not.
PriorInstalls == [ Members -> { "absent", "old" } ]

Call_compare_versions ==
    /\ pc = "entry"
    /\ \E a \in CompareInputs, b \in CompareInputs :
          /\ call' = [ fn |-> "compare_versions", v1 |-> a, v2 |-> b,
                       upd |-> None, answer |-> << >> ]
          /\ ret' = compare_versions(a, b)
    /\ pc' = "returned"
    /\ UNCHANGED << unitFrame, prompts, stdout >>

Call_compare_prompt_update ==
    /\ pc = "entry"
    /\ \E a \in PromptInputs, b \in PromptInputs, upd \in { "True", "False" },
          answer \in Answers :
          LET r == compare_prompt_update(a, b, upd, answer)
          IN  /\ call' = [ fn |-> "compare_prompt_update", v1 |-> a, v2 |-> b,
                           upd |-> upd, answer |-> answer ]
              /\ ret' = r
              /\ prompts' = IF r.prompted THEN prompts + 1 ELSE prompts
    /\ pc' = "returned"
    /\ UNCHANGED << unitFrame, stdout >>

Call_download_portable ==
    /\ pc = "entry"
    /\ call' = [ fn |-> "download_portable", v1 |-> NoneText, v2 |-> NoneText,
                 upd |-> None, answer |-> << >> ]
    /\ caller' = "unit"
    /\ downloads' = downloads + 1
    /\ \E prior \in PriorInstalls :
          /\ disk' = [ disk EXCEPT !.members = prior ]
          /\ disk_before' = disk'
    /\ pc' = "dl_get_release"
    /\ UNCHANGED << envVars, enfugue_installed_portable_version, tar_next,
                    queries, prompts, launched, child_status, stdout, error,
                    exit_code, ret >>

\* ----------------------------------------------------------- specification

Next ==
    \/ ParseArgs
    \/ Probe
    \/ PipInstalled
    \/ PipAvailable
    \/ PortableCheck
    \/ Display
    \/ Launch
    \/ DlGetRelease
    \/ DlFetchArchive
    \/ DlOpenArchive
    \/ DlExtractMember
    \/ DlFinish
    \/ Call_compare_versions
    \/ Call_compare_prompt_update
    \/ Call_download_portable

Spec == Init /\ [][Next]_vars

\* ------------------------------------------------------------------ claims

\* The number a text of digits denotes, by the weight of each position.
RECURSIVE Pow10(_)
Pow10(n) == IF n = 0 THEN 1 ELSE 10 * Pow10(n - 1)

RECURSIVE PositionalSum(_, _)
PositionalSum(t, i) ==
    IF i > Len(t) THEN 0
    ELSE DigitVal(t[i]) * Pow10(Len(t) - i) + PositionalSum(t, i + 1)

\* The components of a valid version text, padded with zeros to length n.
PaddedComponents(v, n) ==
    LET p == Split(v, ".")
    IN  [ i \in 1..n |-> IF i <= Len(p) THEN PositionalSum(p[i], 1) ELSE 0 ]

\* The sign of the first component in which two valid versions differ.
SignOfFirstDifference(a, b) ==
    LET n == Max(Len(Split(a, ".")), Len(Split(b, ".")))
        pa == PaddedComponents(a, n)
        pb == PaddedComponents(b, n)
        differ == { i \in 1..n : pa[i] # pb[i] }
    IN  IF differ = { } THEN 0
        ELSE LET k == CHOOSE i \in differ : \A j \in differ : i <= j
             IN  IF pa[k] > pb[k] THEN 1 ELSE -1

\* An answer that starts with y, t or 1, in either case.
IsYes(answer) == Len(answer) > 0 /\ answer[1] \in { "y", "Y", "t", "T", "1" }

ScriptExited == caller = "script" /\ pc = "exit"

Returned(fn) == pc = "returned" /\ call.fn = fn

\* C1: for valid dotted-integer version texts a and b, compare_versions(a, b)
\* returns the sign of the first differing component after padding the
\* shorter list with zeros, comparing components as numbers, and 0 when none
\* differs; compare("1.2","1.2.0") = 0, compare("2.0.0","1.9.9") = 1 and
\* compare("0.9","0.10") = -1.
C1_CompareIsSignOfFirstDifference ==
    /\ (Returned("compare_versions") /\ IsVersionText(call.v1) /\ IsVersionText(call.v2))
          => (ret.exc = "" /\ ret.val = SignOfFirstDifference(call.v1, call.v2))
    /\ compare_versions(<< "1", ".", "2" >>, << "1", ".", "2", ".", "0" >>) = Return(0)
    /\ compare_versions(<< "2", ".", "0", ".", "0" >>, << "1", ".", "9", ".", "9" >>) = Return(1)
    /\ compare_versions(<< "0", ".", "9" >>, << "0", ".", "1", "0" >>) = Return(-1)

\* C1 witness: compare_versions was called on "9" and "1.0", which differ in
\* length and in the first component, and returned 1.
C1_Witness ==
    /\ Returned("compare_versions")
    /\ call.v1 = << "9" >>
    /\ call.v2 = << "1", ".", "0" >>
    /\ ret = Return(1)

\* C2: with no update override and no local portable version, no comparison
\* is attempted, nothing is fetched and the run goes on to launch instead of
\* ending in an error.
C2_AbsentLocalVersionSkipsUpdate ==
    (/\ ScriptExited
     /\ install_update = None
     /\ enfugue_server # None
     /\ enfugue_installed_portable_version = NoneText
     /\ enfugue_available_portable_version # NoneText)
        => (error = "" /\ downloads = 0 /\ Len(launched) = 1)

\* C3: with --update the update is fetched and the user is never prompted,
\* whatever the local and remote versions are.
C3_ForcedUpdateAlwaysFetches ==
    /\ (ScriptExited /\ install_update = "True" /\ enfugue = None /\ enfugue_server # None)
          => (downloads = 1 /\ prompts = 0)
    /\ (Returned("compare_prompt_update") /\ call.upd = "True"
        /\ IsVersionText(call.v1) /\ IsVersionText(call.v2))
          => (ret.exc = "" /\ ret.val = "True" /\ ~ret.prompted)

\* C4: without an update override a fetch is decided only if the remote
\* version is strictly greater than the local one and the user answered yes
\* at the prompt; when the remote version is equal or older, no prompt is
\* shown and nothing is fetched.  In a run of the script download_portable is
\* entered only after such a prompt.
C4_FetchOnlyIfNewerAndConfirmed ==
    /\ (Returned("compare_prompt_update") /\ call.upd = "False")
          => /\ (ret.exc = "" /\ ret.val = "True")
                   => /\ IsVersionText(call.v1) /\ IsVersionText(call.v2)
                      /\ SignOfFirstDifference(call.v1, call.v2) < 0
                      /\ ret.prompted
                      /\ IsYes(call.answer)
             /\ (/\ IsVersionText(call.v1) /\ IsVersionText(call.v2)
                 /\ SignOfFirstDifference(call.v1, call.v2) >= 0)
                   => (~ret.prompted /\ ret.exc = "" /\ ret.val = None)
    /\ (caller = "script" /\ install_update = None /\ downloads > 0) => prompts > 0

\* C4 witness: a newer remote version was offered, the user answered yes and
\* the decision is to fetch.
C4_Witness ==
    /\ Returned("compare_prompt_update")
    /\ call.upd = "False"
    /\ ret.prompted
    /\ ret.exc = ""
    /\ ret.val = "True"
    /\ IsYes(call.answer)
    /\ SignOfFirstDifference(call.v1, call.v2) < 0

\* C5: at the prompt an answer counts as yes exactly when its first character
\* is y, t or 1 in either case; every other answer, the empty line included,
\* is a no; and the script ends with the status of the child it launched.
C5_AnswerIsYesOrNo ==
    /\ (Returned("compare_prompt_update") /\ ret.prompted)
          => /\ ret.exc = ""
             /\ ret.val = (IF IsYes(call.answer) THEN "True" ELSE "False")
    /\ (ScriptExited /\ Len(launched) = 1) => exit_code = child_status

\* C6: when extraction fails partway, the files of the earlier install are
\* exactly what they were before download_portable was called.
C6_FailedExtractionLeavesInstallUntouched ==
    (Returned("download_portable") /\ ret.exc = "OSError")
        => disk.members = disk_before.members

\* C7: a failed release query or a reply without tag_name is not fatal: the
\* update check is skipped and the install that was found is launched.
C7_FailedQueryStillLaunches ==
    (/\ ScriptExited
     /\ "portable_release" \in queries
     /\ enfugue_available_portable_version = NoneText)
        => (error = "" /\ Len(launched) = 1)

\* C8: when neither entry point resolves, the run reports "not found", makes
\* no version query, no fetch and no launch, and exits with a non-zero status.
C8_NotFoundExitsNonZero ==
    (ScriptExited /\ error = "" /\ enfugue = None /\ enfugue_server = None)
        => /\ "Enfugue not found." \in stdout
           /\ queries = { }
           /\ downloads = 0
           /\ launched = << >>
           /\ exit_code # 0

\* C9: when both entry points are detected and neither --conda nor
\* --portable is given, the one child launched is the package-managed entry
\* point with "run", and the portable release is neither queried nor fetched.
C9_PackageManagedTakesPriority ==
    (ScriptExited /\ install_type = "" /\ enfugue # None /\ enfugue_server # None)
        => /\ launched = << << enfugue, "run" >> >>
           /\ "portable_release" \notin queries
           /\ downloads = 0

=============================================================================
